---- MODULE Spec2Model ----
(***************************************************************************)
(* Model of firmwares.py (homie-monitor): the firmware directory scanner.  *)
(*                                                                         *)
(* Bytes and text are sequences of naturals (byte values, code points).    *)
(* The interpreter is CPython 3: bytes.decode() is strict UTF-8, a str     *)
(* pattern applied to a bytes subject raises TypeError, json.loads takes   *)
(* bytes.  Files are readable and stay unchanged while a scan runs; the    *)
(* only exceptions are the ones the file contents provoke.                 *)
(***************************************************************************)
EXTENDS Integers, Sequences, FiniteSets, TLC

VARIABLES dir, db, db0, listing, visited, outcome

vars == <<dir, db, db0, listing, visited, outcome>>

(***************************************************************************)
(* Text helpers                                                            *)
(***************************************************************************)
Ord ==
  ("a" :> 97) @@ ("b" :> 98) @@ ("c" :> 99) @@ ("d" :> 100) @@ ("e" :> 101)
  @@ ("g" :> 103) @@ ("i" :> 105) @@ ("j" :> 106) @@ ("k" :> 107)
  @@ ("m" :> 109) @@ ("n" :> 110) @@ ("o" :> 111) @@ ("p" :> 112)
  @@ ("r" :> 114) @@ ("s" :> 115) @@ ("t" :> 116) @@ ("v" :> 118)
  @@ ("x" :> 120) @@ ("y" :> 121) @@ ("z" :> 122)
  @@ ("A" :> 65) @@ ("B" :> 66) @@ ("I" :> 73) @@ ("N" :> 78)
  @@ ("K" :> 75) @@ ("M" :> 77) @@ ("G" :> 71) @@ ("T" :> 84) @@ ("P" :> 80)
  @@ ("E" :> 69) @@ ("Z" :> 90) @@ ("Y" :> 89)
  @@ ("0" :> 48) @@ ("1" :> 49) @@ ("2" :> 50) @@ ("3" :> 51) @@ ("4" :> 52)
  @@ ("5" :> 53) @@ ("6" :> 54) @@ ("7" :> 55) @@ ("8" :> 56) @@ ("9" :> 57)
  @@ ("-" :> 45) @@ ("." :> 46) @@ ("/" :> 47) @@ ("_" :> 95) @@ (" " :> 32)
  @@ ("=" :> 61) @@ ("'" :> 39) @@ ("\"" :> 34) @@ ("{" :> 123)
  @@ ("}" :> 125) @@ (":" :> 58) @@ ("," :> 44) @@ ("(" :> 40) @@ (")" :> 41)
  @@ ("?" :> 63) @@ ("\n" :> 10) @@ ("\r" :> 13)

Str(t) == [i \in 1..Len(t) |-> Ord[t[i]]]

Slice(s, i, j) == [k \in 1..(j - i + 1) |-> s[i + k - 1]]

StartsAt(s, i, p) ==
  /\ i >= 1
  /\ i + Len(p) - 1 <= Len(s)
  /\ \A k \in 1..Len(p) : s[i + k - 1] = p[k]

IsDigit(c) == c >= 48 /\ c <= 57

Min(a, b) == IF a < b THEN a ELSE b

Max(S) == CHOOSE x \in S : \A y \in S : y <= x

SetMin(S) == CHOOSE x \in S : \A y \in S : x <= y

RECURSIVE Pow1024(_)
Pow1024(k) == IF k = 0 THEN 1 ELSE 1024 * Pow1024(k - 1)

RECURSIVE DecimalDigits(_)
DecimalDigits(n) ==
  IF n < 10 THEN <<48 + n>> ELSE Append(DecimalDigits(n \div 10), 48 + (n % 10))

(***************************************************************************)
(* bytes.decode(): strict UTF-8.  The result is the code points, or a      *)
(* UnicodeDecodeError.                                                     *)
(***************************************************************************)
IsCont(b) == b >= 128 /\ b <= 191

Utf8Width(b) ==
  IF b < 128 THEN 1
  ELSE IF b >= 194 /\ b <= 223 THEN 2
  ELSE IF b >= 224 /\ b <= 239 THEN 3
  ELSE IF b >= 240 /\ b <= 244 THEN 4
  ELSE 0

Utf8SecondOk(lead, b) ==
  IF lead = 224 THEN b >= 160 /\ b <= 191
  ELSE IF lead = 237 THEN b >= 128 /\ b <= 159
  ELSE IF lead = 240 THEN b >= 144 /\ b <= 191
  ELSE IF lead = 244 THEN b >= 128 /\ b <= 143
  ELSE IsCont(b)

Utf8Point(s, i, w) ==
  IF w = 1 THEN s[i]
  ELSE IF w = 2 THEN (s[i] - 192) * 64 + (s[i + 1] - 128)
  ELSE IF w = 3 THEN (s[i] - 224) * 4096 + (s[i + 1] - 128) * 64 + (s[i + 2] - 128)
  ELSE (s[i] - 240) * 262144 + (s[i + 1] - 128) * 4096
       + (s[i + 2] - 128) * 64 + (s[i + 3] - 128)

RECURSIVE Utf8From(_, _, _)
Utf8From(s, i, acc) ==
  IF i > Len(s) THEN [ok |-> TRUE, text |-> acc]
  ELSE LET w == Utf8Width(s[i]) IN
    IF \/ w = 0
       \/ i + w - 1 > Len(s)
       \/ (w >= 2 /\ ~Utf8SecondOk(s[i], s[i + 1]))
       \/ \E k \in 2..(w - 1) : ~IsCont(s[i + k])
    THEN [ok |-> FALSE, text |-> <<>>]
    ELSE Utf8From(s, i + w, Append(acc, Utf8Point(s, i, w)))

Decode(s) == Utf8From(s, 1, <<>>)

\* open(path, "r").read(): decoded text with universal newlines
RECURSIVE TranslateNewlines(_, _, _)
TranslateNewlines(t, i, acc) ==
  IF i > Len(t) THEN acc
  ELSE IF t[i] = 13 /\ i < Len(t) /\ t[i + 1] = 10
    THEN TranslateNewlines(t, i + 2, Append(acc, 10))
  ELSE IF t[i] = 13 THEN TranslateNewlines(t, i + 1, Append(acc, 10))
  ELSE TranslateNewlines(t, i + 1, Append(acc, t[i]))

NewlinesOf(d) ==
  IF d.ok THEN [ok |-> TRUE, text |-> TranslateNewlines(d.text, 1, <<>>)] ELSE d

ReadText(bytes) == NewlinesOf(Decode(bytes))

(***************************************************************************)
(* Records: a dict is a function from its keys to their values.            *)
(***************************************************************************)
EmptyDict == [k \in {} |-> {}]

Put(d, k, v) == [x \in (DOMAIN d) \cup {k} |-> IF x = k THEN v ELSE d[x]]

Has(d, k) == k \in DOMAIN d

NoMatch == [found |-> FALSE, g1 |-> <<>>, g2 |-> <<>>]

(***************************************************************************)
(* sizeof_fmt and file_md5                                                 *)
(***************************************************************************)
UNITS == <<Str(<<>>), Str(<<"K">>), Str(<<"M">>), Str(<<"G">>), Str(<<"T">>),
           Str(<<"P">>), Str(<<"E">>), Str(<<"Z">>)>>

\* "%.1f" of num / 1024^k: the exact quotient rounded to tenths, ties to even
FormatTenths(num, k) ==
  LET den == Pow1024(k)
      q == (num * 10) \div den
      r == (num * 10) % den
      tenths == IF 2 * r > den \/ (2 * r = den /\ q % 2 = 1) THEN q + 1 ELSE q
  IN DecimalDigits(tenths \div 10) \o Str(<<".">>) \o DecimalDigits(tenths % 10)

RECURSIVE sizeof_fmt_from(_, _)
sizeof_fmt_from(num, k) ==
  IF k > Len(UNITS) THEN FormatTenths(num, k - 1) \o Str(<<"Y", "B">>)
  ELSE IF num < 1024 * Pow1024(k - 1)
    THEN FormatTenths(num, k - 1) \o UNITS[k] \o Str(<<"B">>)
  ELSE sizeof_fmt_from(num, k + 1)

sizeof_fmt(num) == sizeof_fmt_from(num, 1)

BUFFER_SIZE == 4096

\* the digest is kept symbolic: md5 of the bytes the chunks add up to
RECURSIVE md5_update(_, _, _)
md5_update(bytes, pos, absorbed) ==
  IF pos > Len(bytes) THEN absorbed
  ELSE LET last == Min(Len(bytes), pos + BUFFER_SIZE - 1) IN
    md5_update(bytes, last + 1, absorbed \o Slice(bytes, pos, last))

file_md5(bytes) == [md5 |-> md5_update(bytes, 1, <<>>)]

(***************************************************************************)
(* The marker patterns of native images: OPEN(.+)CLOSE, searched in bytes  *)
(***************************************************************************)
NAME_OPEN == <<191, 132, 228, 19, 84>>
NAME_CLOSE == <<147, 68, 107, 167, 117>>
VERSION_OPEN == <<106, 63, 62, 14, 225>>
VERSION_CLOSE == <<176, 48, 72, 212, 26>>
BRAND_OPEN == <<251, 42, 245, 104, 192>>
BRAND_CLOSE == <<110, 47, 15, 235, 45>>

\* the positions where CLOSE can end a match that opened at s: (.+) is one or
\* more bytes, none of them a line feed
MarkerEnds(open, close, data, s) ==
  {e \in (s + Len(open) + 1)..(Len(data) - Len(close) + 1) :
     /\ StartsAt(data, e, close)
     /\ \A k \in (s + Len(open))..(e - 1) : data[k] # 10}

\* re.search: the leftmost start that matches; (.+) is greedy, so it runs to
\* the last closing marker it can reach
MarkerSearch(open, close, data) ==
  LET starts == {s \in 1..Len(data) :
                   StartsAt(data, s, open) /\ MarkerEnds(open, close, data, s) # {}}
  IN IF starts = {} THEN NoMatch
     ELSE LET s == CHOOSE x \in starts : \A y \in starts : x <= y
              e == Max(MarkerEnds(open, close, data, s))
          IN [found |-> TRUE, g1 |-> Slice(data, s + Len(open), e - 1), g2 |-> <<>>]

REGEX_NAME(data) == MarkerSearch(NAME_OPEN, NAME_CLOSE, data)
REGEX_VERSION(data) == MarkerSearch(VERSION_OPEN, VERSION_CLOSE, data)
REGEX_BRAND(data) == MarkerSearch(BRAND_OPEN, BRAND_CLOSE, data)

(***************************************************************************)
(* os.path.splitext and the filename convention                            *)
(***************************************************************************)
splitext(p) ==
  LET dots == {i \in 1..Len(p) : p[i] = Ord["."]} IN
  IF dots = {} THEN <<p, <<>>>>
  ELSE LET d == Max(dots) IN
    IF \E k \in 1..(d - 1) : p[k] # Ord["."]
    THEN <<Slice(p, 1, d - 1), Slice(p, d, Len(p))>>
    ELSE <<p, <<>>>>

\* the end of the run \d+ starting at i, or 0
DigitsEnd(s, i) ==
  IF i > Len(s) \/ ~IsDigit(s[i]) THEN 0
  ELSE Max({j \in i..Len(s) : \A k \in i..j : IsDigit(s[k])})

\* the end of \d+\.\d+\.\d+ starting at i, or 0
SemverEnd(s, i) ==
  LET a == DigitsEnd(s, i) IN
  IF a = 0 \/ a + 1 > Len(s) \/ s[a + 1] # Ord["."] THEN 0
  ELSE LET b == DigitsEnd(s, a + 2) IN
    IF b = 0 \/ b + 1 > Len(s) \/ s[b + 1] # Ord["."] THEN 0
    ELSE DigitsEnd(s, b + 2)

\* the positions of the "-" that (.*) can stop before, when the match starts at s
DashStops(s, start) ==
  {d \in start..Len(s) :
     /\ s[d] = Ord["-"]
     /\ \A k \in start..(d - 1) : s[k] # 10
     /\ SemverEnd(s, d + 1) # 0}

\* the same pattern anchored at the end of the name (a full match)
FilenameSearch_anchored(s) ==
  LET stops(i) == {d \in DashStops(s, i) : SemverEnd(s, d + 1) = Len(s)}
      starts == {i \in 1..Len(s) : stops(i) # {}}
  IN IF starts = {} THEN NoMatch
     ELSE LET i == SetMin(starts)
              d == Max(stops(i))
          IN [found |-> TRUE, g1 |-> Slice(s, i, d - 1), g2 |-> Slice(s, d + 1, Len(s))]

\* re.compile(r"(.*)\-(\d+\.\d+\.\d+)").search: leftmost start, greedy (.*)
FilenameSearch(s) ==
  LET starts == {i \in 1..Len(s) : DashStops(s, i) # {}} IN
  IF starts = {} THEN NoMatch
  ELSE LET i == CHOOSE x \in starts : \A y \in starts : x <= y
           d == Max(DashStops(s, i))
       IN [found |-> TRUE, g1 |-> Slice(s, i, d - 1),
           g2 |-> Slice(s, d + 1, SemverEnd(s, d + 1))]


(***************************************************************************)
(* json.loads on the bytes of a manifest.  The grammar is the part of JSON *)
(* the manifests of this model use: a string, or an object whose members   *)
(* are strings; no escapes.  Anything else is a JSONDecodeError.           *)
(***************************************************************************)
JsonFail == [ok |-> FALSE, kind |-> "none", obj |-> EmptyDict, str |-> <<>>, next |-> 0]

JsonWs(c) == c \in {32, 9, 10, 13}

JsonSkip(t, i) == SetMin({j \in i..(Len(t) + 1) : j = Len(t) + 1 \/ ~JsonWs(t[j])})

JsonString(t, i) ==
  IF i > Len(t) \/ t[i] # Ord["\""] THEN JsonFail
  ELSE LET closes == {j \in (i + 1)..Len(t) : t[j] = Ord["\""]} IN
    IF closes = {} THEN JsonFail
    ELSE LET j == SetMin(closes) IN
      IF \E k \in (i + 1)..(j - 1) : t[k] < 32 \/ t[k] = 92 THEN JsonFail
      ELSE [ok |-> TRUE, kind |-> "string", obj |-> EmptyDict,
            str |-> Slice(t, i + 1, j - 1), next |-> j + 1]

JsonObject(obj, next) ==
  [ok |-> TRUE, kind |-> "object", obj |-> obj, str |-> <<>>, next |-> next]

RECURSIVE JsonMembers(_, _, _)

\* after a member, at e: "," and the next member, or "}"
JsonAfterMember(t, more, e) ==
  IF e > Len(t) THEN JsonFail
  ELSE IF t[e] = Ord[","] THEN JsonMembers(t, JsonSkip(t, e + 1), more)
  ELSE IF t[e] = Ord["}"] THEN JsonObject(more, e + 1)
  ELSE JsonFail

JsonAfterValue(t, acc, k, v) ==
  IF ~v.ok THEN JsonFail
  ELSE JsonAfterMember(t, Put(acc, k.str, v.str), JsonSkip(t, v.next))

JsonAfterKey(t, acc, k, c) ==
  IF ~k.ok \/ c > Len(t) \/ t[c] # Ord[":"] THEN JsonFail
  ELSE JsonAfterValue(t, acc, k, JsonString(t, JsonSkip(t, c + 1)))

JsonMember(t, acc, k) == JsonAfterKey(t, acc, k, IF k.ok THEN JsonSkip(t, k.next) ELSE 0)

\* the members of an object from i on: "key" : "value", ...
JsonMembers(t, i, acc) == JsonMember(t, acc, JsonString(t, i))

JsonOpen(t, j) ==
  IF j <= Len(t) /\ t[j] = Ord["}"] THEN JsonObject(EmptyDict, j + 1)
  ELSE JsonMembers(t, j, EmptyDict)

JsonValue(t, i) ==
  IF i > Len(t) THEN JsonFail
  ELSE IF t[i] = Ord["{"] THEN JsonOpen(t, JsonSkip(t, i + 1))
  ELSE JsonString(t, i)

\* the whole text is one value, white space around it
JsonDocument(t, v) ==
  IF v.ok /\ JsonSkip(t, v.next) = Len(t) + 1 THEN v ELSE JsonFail

JsonText(d) ==
  IF ~d.ok THEN JsonFail
  ELSE JsonDocument(d.text, JsonValue(d.text, JsonSkip(d.text, 1)))

json_loads(bytes) == JsonText(Decode(bytes))

(***************************************************************************)
(* The patterns of the entry script, as re.search(pattern, subject, re.M)  *)
(* applies them.  A str pattern on a bytes subject raises TypeError.       *)
(***************************************************************************)
LineStart(t, i) == i = 1 \/ t[i - 1] = 10

VERSION_PREFIX ==
  Str(<<"_", "_", "v", "e", "r", "s", "i", "o", "n", "_", "_", " ", "=", " ">>)

IsQuote(c) == c = Ord["'"] \/ c = Ord["\""]

\* ^__version__ = ['\"]([^'\"]*)['\"]
PythonVersionMatch(t) ==
  LET q == Len(VERSION_PREFIX)
      ok(i) == /\ LineStart(t, i)
               /\ StartsAt(t, i, VERSION_PREFIX)
               /\ i + q <= Len(t)
               /\ IsQuote(t[i + q])
               /\ \E j \in (i + q + 1)..Len(t) : IsQuote(t[j])
      starts == {i \in 1..Len(t) : ok(i)}
  IN IF starts = {} THEN NoMatch
     ELSE LET i == SetMin(starts)
              j == SetMin({x \in (i + q + 1)..Len(t) : IsQuote(t[x])})
          IN [found |-> TRUE, g1 |-> Slice(t, i + q + 1, j - 1), g2 |-> <<>>]

TRIPLE_QUOTE == Str(<<"\"", "\"", "\"">>)

\* the class [^(?:\"\"\")] excludes the characters ( ? : " )
DescStop(c) == c \in {Ord["("], Ord["?"], Ord[":"], Ord["\""], Ord[")"]}

\* ^\"\"\"([^(?:\"\"\")]*)\"\"\"
PythonDescMatch(t) ==
  LET stop(i) == SetMin({x \in (i + 3)..(Len(t) + 1) : x = Len(t) + 1 \/ DescStop(t[x])})
      ok(i) == /\ LineStart(t, i)
               /\ StartsAt(t, i, TRIPLE_QUOTE)
               /\ StartsAt(t, stop(i), TRIPLE_QUOTE)
      starts == {i \in 1..Len(t) : ok(i)}
  IN IF starts = {} THEN NoMatch
     ELSE LET i == SetMin(starts) IN
       [found |-> TRUE, g1 |-> Slice(t, i + 3, stop(i) - 1), g2 |-> <<>>]

\* re.search with a str pattern: subject is [kind, data], kind "bytes" or "str"
re_search_version(subject) ==
  IF subject.kind = "bytes" THEN [raised |-> TRUE, m |-> NoMatch]
  ELSE [raised |-> FALSE, m |-> PythonVersionMatch(subject.data)]

re_search_desc(subject) ==
  IF subject.kind = "bytes" THEN [raised |-> TRUE, m |-> NoMatch]
  ELSE [raised |-> FALSE, m |-> PythonDescMatch(subject.data)]


(***************************************************************************)
(* Directory entries.  A file is its bytes and what zipfile makes of them: *)
(* is_zip (zipfile.is_zipfile) and the members of the archive.             *)
(***************************************************************************)
RawFile(bytes) ==
  [kind |-> "file", bytes |-> bytes, is_zip |-> FALSE, members |-> EmptyDict]

Directory == [kind |-> "dir", bytes |-> <<>>, is_zip |-> FALSE, members |-> EmptyDict]

MAIN_PY == Str(<<"m", "a", "i", "n", ".", "p", "y">>)
PACKAGE_JSON == Str(<<"p", "a", "c", "k", "a", "g", "e", ".", "j", "s", "o", "n">>)

\* stand-in for the container's bytes: a signature, then the members' data
ZipBytes(members) ==
  Str(<<"P", "K">>)
  \o (IF Has(members, MAIN_PY) THEN Str(<<"m">>) \o members[MAIN_PY] ELSE <<>>)
  \o (IF Has(members, PACKAGE_JSON) THEN Str(<<"j">>) \o members[PACKAGE_JSON] ELSE <<>>)

ZipFile(members) ==
  [kind |-> "file", bytes |-> ZipBytes(members), is_zip |-> TRUE, members |-> members]

isfile(d, name) == Has(d, name) /\ d[name].kind = "file"

Ok(rec) == [rec |-> rec, raised |-> "none"]

Raise(rec, exc) == [rec |-> rec, raised |-> exc]

(***************************************************************************)
(* scan_esp_firmware                                                       *)
(***************************************************************************)
\* db[key] = t, or the exception of the decoding that gave t
Store(st, key, t, exc) ==
  IF t.ok THEN Ok(Put(st.rec, key, t.text)) ELSE Raise(st.rec, exc)

\* if result: db[key] = result.group(1).decode()
DecodeInto(st, key, m) ==
  IF st.raised # "none" \/ ~m.found THEN st
  ELSE Store(st, key, Decode(m.g1), "UnicodeDecodeError")

TXT == Str(<<".", "t", "x", "t">>)

ReadDescription(d, st, fw_desc_path) ==
  IF st.raised # "none" \/ ~isfile(d, fw_desc_path) THEN st
  ELSE Store(st, "description", ReadText(d[fw_desc_path].bytes), "UnicodeDecodeError")

ReadSidecar(d, fw_file, st) == ReadDescription(d, st, splitext(fw_file)[1] \o TXT)

scan_esp_firmware(d, fw_file, rec) ==
  LET firmware_binary == d[fw_file].bytes
      typed == Ok(Put(rec, "type", "esp8266"))
      named == DecodeInto(typed, "name", REGEX_NAME(firmware_binary))
      versioned == DecodeInto(named, "version", REGEX_VERSION(firmware_binary))
      branded == DecodeInto(versioned, "brand", REGEX_BRAND(firmware_binary))
  IN ReadSidecar(d, fw_file, branded)

(***************************************************************************)
(* scan_bundle_firmware                                                    *)
(***************************************************************************)
ScriptVersion(rec, version_result) ==
  IF version_result.m.found THEN Put(rec, "version", version_result.m.g1) ELSE rec

ScriptDescription(rec, description_result) ==
  IF description_result.raised THEN Raise(rec, "TypeError")
  ELSE IF description_result.m.found
    THEN Ok(Put(Put(rec, "description", description_result.m.g1), "type", "python"))
  ELSE Ok(Put(rec, "type", "python"))

ScriptFields(rec, main_as_text, version_result) ==
  IF version_result.raised THEN Raise(rec, "TypeError")
  ELSE ScriptDescription(ScriptVersion(rec, version_result), re_search_desc(main_as_text))

ScriptRead(rec, main_as_text) ==
  ScriptFields(rec, main_as_text, re_search_version(main_as_text))

\* the first try block: getinfo, read, the two searches; else: type python
ScriptProbe(members, rec) ==
  IF ~Has(members, MAIN_PY) THEN Raise(rec, "KeyError")
  ELSE ScriptRead(rec, [kind |-> "bytes", data |-> members[MAIN_PY]])

DESCRIPTION == Str(<<"d", "e", "s", "c", "r", "i", "p", "t", "i", "o", "n">>)
VERSION == Str(<<"v", "e", "r", "s", "i", "o", "n">>)

\* db["description"] = package["description"]; db["version"] = package["version"]
ManifestFields(rec, package) ==
  IF ~package.ok THEN Raise(rec, "JSONDecodeError")
  ELSE IF package.kind # "object" THEN Raise(rec, "TypeError")
  ELSE IF ~Has(package.obj, DESCRIPTION) THEN Raise(rec, "KeyError")
  ELSE IF ~Has(package.obj, VERSION)
    THEN Raise(Put(rec, "description", package.obj[DESCRIPTION]), "KeyError")
  ELSE Ok(Put(Put(Put(rec, "description", package.obj[DESCRIPTION]),
                  "version", package.obj[VERSION]),
              "type", "javascript"))

\* the second try block: getinfo, json.loads, the two fields; else: type javascript
ManifestProbe(members, rec) ==
  IF ~Has(members, PACKAGE_JSON) THEN Raise(rec, "KeyError")
  ELSE ManifestFields(rec, json_loads(members[PACKAGE_JSON]))

\* except Exception: pass
Swallow(st) == Ok(st.rec)

\* the first try block without its except: what the script probe raises escapes
scan_bundle_firmware_unguarded(d, fw_file, rec) ==
  IF ~d[fw_file].is_zip THEN Ok(rec)
  ELSE IF ScriptProbe(d[fw_file].members, rec).raised \notin {"none", "KeyError"}
    THEN ScriptProbe(d[fw_file].members, rec)
  ELSE Swallow(ManifestProbe(d[fw_file].members,
                             Swallow(ScriptProbe(d[fw_file].members, rec)).rec))

\* without the is_zipfile test: zipfile.ZipFile raises BadZipFile
scan_bundle_firmware_nocheck(d, fw_file, rec) ==
  IF ~d[fw_file].is_zip THEN Raise(rec, "BadZipFile")
  ELSE Swallow(ManifestProbe(d[fw_file].members,
                             Swallow(ScriptProbe(d[fw_file].members, rec)).rec))

scan_bundle_firmware(d, fw_file, rec) ==
  IF ~d[fw_file].is_zip THEN Ok(rec)
  ELSE Swallow(ManifestProbe(d[fw_file].members,
                             Swallow(ScriptProbe(d[fw_file].members, rec)).rec))

(***************************************************************************)
(* scan_firmwares                                                          *)
(***************************************************************************)
BIN == Str(<<".", "b", "i", "n">>)
ZIP == Str(<<".", "z", "i", "p">>)

fw_types(ext, d, fw_file, rec) ==
  IF ext = BIN THEN scan_esp_firmware(d, fw_file, rec)
  ELSE scan_bundle_firmware(d, fw_file, rec)

\* the record of an earlier scan taken up again (db.setdefault(fw_file, {}))
NewRecord_reuse(database, fw_file) ==
  IF Has(database, fw_file) THEN Put(database[fw_file], "filename", fw_file)
  ELSE Put(EmptyDict, "filename", fw_file)

\* firmware_info = db[fw_file] = {}; firmware_info["filename"] = fw_file
NewRecord(database, fw_file) == Put(EmptyDict, "filename", fw_file)

\* filename_version taken from the extractor's version when there is one
FinishRecord_versionWins(info, regex_result, bytes) ==
  LET named == IF Has(info, "name") THEN info ELSE Put(info, "name", regex_result.g1)
      versioned == Put(named, "filename_version",
                       IF Has(info, "version") THEN info["version"] ELSE regex_result.g2)
      sized == Put(versioned, "human_size", sizeof_fmt(Len(bytes)))
  IN Put(sized, "checksum", file_md5(bytes))

\* lines 128-134: the name fallback, filename_version, human_size, checksum
FinishRecord(info, regex_result, bytes) ==
  LET named == IF Has(info, "name") THEN info ELSE Put(info, "name", regex_result.g1)
      versioned == Put(named, "filename_version", regex_result.g2)
      sized == Put(versioned, "human_size", sizeof_fmt(Len(bytes)))
  IN Put(sized, "checksum", file_md5(bytes))

Skipped(database) == [db |-> database, raised |-> "none"]

\* lines 126-134: what the extractor left, finished unless it raised
StoreRecord(database, fw_file, regex_result, bytes, got) ==
  IF got.raised # "none"
  THEN [db |-> Put(database, fw_file, got.rec), raised |-> got.raised]
  ELSE [db |-> Put(database, fw_file, FinishRecord(got.rec, regex_result, bytes)),
        raised |-> "none"]

\* lines 117-126
ScanMatched(d, fw_file, database, fw_file_ext, regex_result) ==
  IF ~regex_result.found THEN Skipped(database)
  ELSE StoreRecord(database, fw_file, regex_result, d[fw_file].bytes,
                   fw_types(fw_file_ext, d, fw_file, NewRecord(database, fw_file)))

\* lines 110-115
ScanSplit(d, fw_file, database, parts) ==
  IF parts[2] \notin {BIN, ZIP} THEN Skipped(database)
  ELSE ScanMatched(d, fw_file, database, parts[2], FilenameSearch(parts[1]))

\* one iteration of the loop: the database after it, and what it raised
ScanOne(d, fw_file, database) ==
  IF ~isfile(d, fw_file) THEN Skipped(database)
  ELSE ScanSplit(d, fw_file, database, splitext(fw_file))

RECURSIVE ScanFrom(_, _, _, _)

ScanStep(d, order, i, one) ==
  IF one.raised # "none" THEN [db |-> one.db, visited |-> i, raised |-> one.raised]
  ELSE ScanFrom(d, order, i + 1, one.db)

\* for fw_file in os.listdir(path): an exception ends the loop
ScanFrom(d, order, i, database) ==
  IF i > Len(order) THEN [db |-> database, visited |-> Len(order), raised |-> "none"]
  ELSE ScanStep(d, order, i, ScanOne(d, order[i], database))

scan_firmwares(d, order, database) == ScanFrom(d, order, 1, database)

\* os.listdir: the names, in any order
RECURSIVE Orders(_)
Orders(S) ==
  IF S = {} THEN {<<>>}
  ELSE UNION {{<<x>> \o o : o \in Orders(S \ {x})} : x \in S}


(***************************************************************************)
(* The inputs of the model                                                 *)
(***************************************************************************)
MaxNameParts == 3
MaxChunks == 3
MaxEntries == 2

RECURSIVE Concat(_)
Concat(ss) == IF ss = <<>> THEN <<>> ELSE Head(ss) \o Concat(Tail(ss))

SeqsUpTo(S, n) == UNION {[1..k -> S] : k \in 0..n}

\* file names: a few parts put together, then an extension
NameParts ==
  {Str(<<"a">>), Str(<<"-">>), Str(<<".">>), Str(<<"1">>),
   Str(<<"1", ".", "2">>), Str(<<"-", "1", ".", "2", ".", "3">>)}

NameExts == {BIN, ZIP, TXT, Str(<<".", "B", "I", "N">>), <<>>}

\* os.listdir never lists "." and ".."
Names ==
  {Concat(ps) \o e : ps \in SeqsUpTo(NameParts, MaxNameParts), e \in NameExts}
  \ {<<>>, Str(<<".">>), Str(<<".", ".">>)}

\* native images: a few chunks put together
Chunks ==
  {NAME_OPEN, NAME_CLOSE, VERSION_OPEN, VERSION_CLOSE, BRAND_OPEN, BRAND_CLOSE,
   Str(<<"A">>), Str(<<"\n">>), <<255>>}

ImageFull ==
  NAME_OPEN \o Str(<<"N">>) \o NAME_CLOSE \o VERSION_OPEN \o Str(<<"9", ".", "9">>)
  \o VERSION_CLOSE \o BRAND_OPEN \o Str(<<"B">>) \o BRAND_CLOSE

ImageBadName ==
  NAME_OPEN \o <<255>> \o NAME_CLOSE \o VERSION_OPEN \o Str(<<"9", ".", "9">>)
  \o VERSION_CLOSE \o BRAND_OPEN \o Str(<<"B">>) \o BRAND_CLOSE

ImageSameVersion ==
  VERSION_OPEN \o Str(<<"1", ".", "2", ".", "3">>) \o VERSION_CLOSE

ImagePlain == Str(<<"A">>)

Images ==
  {Concat(cs) : cs \in SeqsUpTo(Chunks, MaxChunks)}
  \cup {ImageFull, ImageBadName, ImageSameVersion}

\* entry scripts and manifests of bundles
Quoted(q, t) == Str(<<q>>) \o t \o Str(<<q>>)

ScriptDoc == TRIPLE_QUOTE \o Str(<<"d", "o", "c">>) \o TRIPLE_QUOTE \o Str(<<"\n">>)

Scripts ==
  {ScriptDoc \o VERSION_PREFIX \o Quoted("\"", Str(<<"2", ".", "1">>)) \o Str(<<"\n">>),
   VERSION_PREFIX \o Quoted("'", Str(<<"2">>)),
   Str(<<" ">>) \o VERSION_PREFIX \o Quoted("\"", Str(<<"2">>)),
   Str(<<"x">>),
   <<255>>}

JPair(k, v) == Quoted("\"", k) \o Str(<<":">>) \o Quoted("\"", v)

JObject(pairs) ==
  Str(<<"{">>)
  \o (IF pairs = <<>> THEN <<>>
      ELSE Head(pairs) \o Concat([i \in 1..(Len(pairs) - 1) |-> Str(<<",", " ">>) \o pairs[i + 1]]))
  \o Str(<<"}">>)

ManifestVersions == {Str(<<"3">>), Str(<<"2", ".", "1">>)}
ManifestDescriptions == {Str(<<"p", "k", "g">>), <<>>}

Manifests ==
  {JObject(<<JPair(VERSION, v), JPair(DESCRIPTION, t)>>) :
     v \in ManifestVersions, t \in ManifestDescriptions}
  \cup {JObject(<<JPair(DESCRIPTION, t), JPair(VERSION, v)>>) :
     v \in ManifestVersions, t \in ManifestDescriptions}
  \cup {JObject(<<JPair(VERSION, v)>>) : v \in ManifestVersions}
  \cup {JObject(<<JPair(DESCRIPTION, t)>>) : t \in ManifestDescriptions}
  \cup {JObject(<<>>),
        Quoted("\"", Str(<<"3">>)),
        Str(<<"{">>) \o JPair(VERSION, Str(<<"3">>)),
        <<255>>}

Bundles ==
  {(IF m = <<0>> THEN EmptyDict ELSE Put(EmptyDict, MAIN_PY, m))
   @@ (IF j = <<0>> THEN EmptyDict ELSE Put(EmptyDict, PACKAGE_JSON, j)) :
     m \in Scripts \cup {<<0>>}, j \in Manifests \cup {<<0>>}}

FwBin == Str(<<"a", "-", "1", ".", "2", ".", "3", ".", "b", "i", "n">>)
FwTxt == Str(<<"a", "-", "1", ".", "2", ".", "3", ".", "t", "x", "t">>)
FwZip == Str(<<"t", "-", "2", ".", "0", ".", "0", ".", "z", "i", "p">>)
FwOdd == Str(<<"c", ".", "b", "i", "n">>)
FwDir == Str(<<"d", "-", "1", ".", "0", ".", "0", ".", "b", "i", "n">>)

NotAZip == RawFile(Str(<<"z", "z">>))

Sidecars ==
  {RawFile(Str(<<"d", "o", "c">>)), RawFile(Str(<<"d", "\r", "\n", "c">>)),
   RawFile(<<255>>), Directory}

One(name, entry) == Put(EmptyDict, name, entry)

ManifestBoth ==
  JObject(<<JPair(VERSION, Str(<<"3">>)), JPair(DESCRIPTION, Str(<<"p", "k", "g">>))>>)

\* the files the environment of Spec creates
Catalogue ==
  {<<FwBin, RawFile(i)>> : i \in {ImagePlain, ImageFull, ImageBadName, ImageSameVersion}}
  \cup {<<FwTxt, RawFile(Str(<<"d", "o", "c">>))>>}
  \cup {<<FwZip, NotAZip>>,
        <<FwZip, ZipFile(Put(EmptyDict, PACKAGE_JSON, ManifestBoth))>>}
  \cup {<<FwOdd, RawFile(ImageFull)>>, <<FwDir, Directory>>}

NameDirs ==
  {One(n, e) : n \in Names,
               e \in {RawFile(ImagePlain), RawFile(ImageFull), RawFile(ImageSameVersion),
                      NotAZip, ZipFile(Put(EmptyDict, PACKAGE_JSON, ManifestBoth)),
                      Directory}}

EspDirs ==
  {One(FwBin, RawFile(i)) : i \in Images}
  \cup {One(FwBin, RawFile(i)) @@ One(FwTxt, t) : i \in Images, t \in Sidecars}

BundleDirs ==
  {One(FwZip, ZipFile(b)) : b \in Bundles} \cup {One(FwZip, NotAZip)}

(***************************************************************************)
(* The state machine                                                       *)
(***************************************************************************)
Idle(d) ==
  /\ dir = d
  /\ db = EmptyDict
  /\ db0 = EmptyDict
  /\ listing = <<>>
  /\ visited = 0
  /\ outcome = "idle"

Init == Idle(EmptyDict)

\* a file or directory appears in the scanned directory
CreateEntry ==
  \E e \in Catalogue :
    /\ ~Has(dir, e[1])
    /\ Cardinality(DOMAIN dir) < MaxEntries
    /\ dir' = Put(dir, e[1], e[2])
    /\ db0' = db
    /\ listing' = <<>>
    /\ visited' = 0
    /\ outcome' = "idle"
    /\ UNCHANGED db

\* an entry of the scanned directory is deleted
RemoveEntry ==
  \E n \in DOMAIN dir :
    /\ dir' = [x \in (DOMAIN dir) \ {n} |-> dir[x]]
    /\ db0' = db
    /\ listing' = <<>>
    /\ visited' = 0
    /\ outcome' = "idle"
    /\ UNCHANGED db

\* scan_firmwares(path, db): the caller passes the dict it holds, or a new one
Scan ==
  \E order \in Orders(DOMAIN dir), start \in {db, EmptyDict} :
    \E r \in {scan_firmwares(dir, order, start)} :
    /\ db0' = start
    /\ db' = r.db
    /\ listing' = order
    /\ visited' = r.visited
    /\ outcome' = IF r.raised = "none" THEN "returned" ELSE "raised"
    /\ UNCHANGED dir

Next == CreateEntry \/ RemoveEntry \/ Scan

Spec == Init /\ [][Next]_vars

\* one scan of a directory holding one entry, over many names
InitNames == \E d \in NameDirs : Idle(d)
SpecNames == InitNames /\ [][Scan]_vars

\* one scan of a native image with or without its sidecar
InitEsp == \E d \in EspDirs : Idle(d)
SpecEsp == InitEsp /\ [][Scan]_vars

\* one scan of a bundle
InitBundle == \E d \in BundleDirs : Idle(d)
SpecBundle == InitBundle /\ [][Scan]_vars


(***************************************************************************)
(* Properties.  The vocabulary of the claims, stated without the code's    *)
(* own searches.                                                           *)
(***************************************************************************)
IsDigits(t) == Len(t) >= 1 /\ \A i \in 1..Len(t) : IsDigit(t[i])

\* <digits>.<digits>.<digits>, the whole of t
IsSemver(t) ==
  \E i, j \in 1..Len(t) :
    /\ i < j
    /\ t[i] = Ord["."]
    /\ t[j] = Ord["."]
    /\ IsDigits(Slice(t, 1, i - 1))
    /\ IsDigits(Slice(t, i + 1, j - 1))
    /\ IsDigits(Slice(t, j + 1, Len(t)))

\* <text>-<digits>.<digits>.<digits>, the whole of b
OfTheForm(b) ==
  \E d \in 1..Len(b) : b[d] = Ord["-"] /\ IsSemver(Slice(b, d + 1, Len(b)))

\* -<digits>.<digits>.<digits> somewhere in b
ContainsTheForm(b) ==
  \E d \in 1..Len(b) : \E e \in d..Len(b) :
    b[d] = Ord["-"] /\ IsSemver(Slice(b, d + 1, e))

HasExt(f, ext) == Len(f) > Len(ext) /\ StartsAt(f, Len(f) - Len(ext) + 1, ext)

\* the name without its four-character extension
BaseOf(f) == Slice(f, 1, Len(f) - 4)

FirmwareNamed(f, Form(_)) ==
  /\ dir[f].kind = "file"
  /\ HasExt(f, BIN) \/ HasExt(f, ZIP)
  /\ Form(BaseOf(f))

AfterScanOfEmptyDb == outcome = "returned" /\ db0 = EmptyDict

Completed(f) == Has(db, f) /\ Has(db[f], "checksum")

\* C1 as stated: after a scan of an empty db that returns, db has a key f iff f
\* is a regular file with extension .bin or .zip whose name without the
\* extension is of the form <text>-<digits>.<digits>.<digits>
C1_RecordIffOfTheForm ==
  AfterScanOfEmptyDb =>
    DOMAIN db = {f \in DOMAIN dir : FirmwareNamed(f, OfTheForm)}

\* C1 as amended: ... whose name without the extension contains
\* -<digits>.<digits>.<digits> (text may follow the patch digits too)
C1_RecordIffContainsTheForm ==
  AfterScanOfEmptyDb =>
    DOMAIN db = {f \in DOMAIN dir : FirmwareNamed(f, ContainsTheForm)}

\* C1 witness: a record made for a name in which text follows the version
C1_Witness ==
  /\ AfterScanOfEmptyDb
  /\ \E f \in DOMAIN db : ~OfTheForm(BaseOf(f)) /\ Completed(f)

\* the version a name carries: what follows the last "-" that a version
\* follows, to the end of that version's digits
EmbeddedVersion(f) ==
  LET b == BaseOf(f)
      versionAt(d) == {e \in d..Len(b) : IsSemver(Slice(b, d + 1, e))}
      dashes == {d \in 1..Len(b) : b[d] = Ord["-"] /\ versionAt(d) # {}}
  IN Slice(b, Max(dashes) + 1, Max(versionAt(Max(dashes))))

\* C8: every completed record's filename_version is the version in the file's
\* name, verbatim, whatever version the content carries
C8_FilenameVersionVerbatim ==
  \A f \in DOMAIN db :
    Has(db[f], "checksum") =>
      /\ Has(db[f], "filename_version")
      /\ db[f]["filename_version"] = EmbeddedVersion(f)

\* C8 witness: a completed record whose content version differs from the
\* version in its name
C8_Witness ==
  \E f \in DOMAIN db :
    /\ Completed(f)
    /\ Has(db[f], "version")
    /\ db[f]["version"] # db[f]["filename_version"]
    /\ db[f]["filename_version"] = EmbeddedVersion(f)

\* a file named as a bundle, by the convention, that is no zip container
NotAZipBundle(f) ==
  /\ Has(dir, f)
  /\ FirmwareNamed(f, ContainsTheForm)
  /\ HasExt(f, ZIP)
  /\ ~dir[f].is_zip

Dash == Str(<<"-">>)

\* C7: whenever the scan comes to a .zip file named by the convention that is
\* no zip container, nothing is raised for it and its record holds exactly
\* filename, name (the base name), filename_version, human_size and checksum
C7_NotAZipRecord ==
  outcome # "idle" =>
    \A k \in 1..visited :
      NotAZipBundle(listing[k]) =>
        /\ ~(outcome = "raised" /\ k = visited)
        /\ Has(db, listing[k])
        /\ DOMAIN db[listing[k]]
             = {"filename", "name", "filename_version", "human_size", "checksum"}
        /\ db[listing[k]]["filename"] = listing[k]
        /\ db[listing[k]]["name"] \o Dash \o db[listing[k]]["filename_version"]
             = BaseOf(listing[k])

\* C7 witness: such a file scanned after it had a record as a valid bundle
C7_Witness ==
  /\ outcome # "idle"
  /\ \E k \in 1..visited :
       /\ NotAZipBundle(listing[k])
       /\ Has(db0, listing[k])
       /\ Has(db0[listing[k]], "type")
       /\ ~Has(db[listing[k]], "type")

\* what a scan of the current directory into an empty db gives
Fresh == scan_firmwares(dir, listing, EmptyDict).db

\* C9 as stated: after a scan returns, db is what a scan of the current
\* directory into an empty db gives
C9_OnlyCurrentContents == outcome = "returned" => db = Fresh

\* C9 as amended: after a scan returns, every file of the directory that
\* qualifies has the record a scan into an empty db gives it, every other key
\* is as it was before the call, and a second scan changes nothing
C9_FreshRecordsStaleKept ==
  outcome = "returned" =>
    /\ \A f \in DOMAIN Fresh : Has(db, f) /\ db[f] = Fresh[f]
    /\ \A f \in (DOMAIN db) \ (DOMAIN Fresh) : Has(db0, f) /\ db[f] = db0[f]
    /\ \A f \in DOMAIN db0 : Has(db, f)
    /\ scan_firmwares(dir, listing, db).db = db

\* C9 witness: a scan returned and db still holds the record of a file that
\* is gone, beside a record of a file scanned now
C9_Witness ==
  /\ outcome = "returned"
  /\ \E f \in DOMAIN db : ~Has(dir, f)
  /\ \E f \in DOMAIN db : Has(dir, f) /\ Has(Fresh, f)

\* the record that processing f alone gives
Alone(f) == ScanOne(dir, f, EmptyDict).db

\* C5 as stated: a failure while one file is processed aborts that file at
\* most: every file that qualifies and does not fail itself has its complete
\* record after the call
C5_FailureIsPerFile ==
  outcome # "idle" =>
    \A f \in DOMAIN dir :
      (Has(Alone(f), f) /\ ScanOne(dir, f, EmptyDict).raised = "none") =>
        Has(db, f) /\ db[f] = Alone(f)[f]


(***************************************************************************)
(* Properties of the bundle inspector                                      *)
(***************************************************************************)
Bundle(f) == dir[f].kind = "file" /\ HasExt(f, ZIP) /\ dir[f].is_zip

Member(f, m) == dir[f].members[m]

\* the manifest of f is an object of exactly these two fields
ManifestIs(f, v, t) ==
  /\ Has(dir[f].members, PACKAGE_JSON)
  /\ Member(f, PACKAGE_JSON)
       \in {JObject(<<JPair(VERSION, v), JPair(DESCRIPTION, t)>>),
            JObject(<<JPair(DESCRIPTION, t), JPair(VERSION, v)>>)}

Field(f, key, value) == Has(db, f) /\ Has(db[f], key) /\ db[f][key] = value

\* C2: a bundle with an entry script and a manifest of both fields ends with
\* the manifest's version and description and type javascript, whatever the
\* entry script holds
C2_ManifestWins ==
  outcome # "idle" =>
    \A f \in DOMAIN dir : \A v \in ManifestVersions, t \in ManifestDescriptions :
      (Bundle(f) /\ Has(dir[f].members, MAIN_PY) /\ ManifestIs(f, v, t)) =>
        /\ outcome = "returned"
        /\ Field(f, "version", v)
        /\ Field(f, "description", t)
        /\ Field(f, "type", "javascript")

\* the version the entry script of f declares
ScriptVersionOf(f) == PythonVersionMatch(Decode(Member(f, MAIN_PY)).text)

\* C2 witness: the entry script declares another version than the manifest
C2_Witness ==
  /\ outcome = "returned"
  /\ \E f \in DOMAIN dir : \E v \in ManifestVersions, t \in ManifestDescriptions :
       /\ Bundle(f)
       /\ Has(dir[f].members, MAIN_PY)
       /\ ManifestIs(f, v, t)
       /\ Decode(Member(f, MAIN_PY)).ok
       /\ ScriptVersionOf(f).found
       /\ ScriptVersionOf(f).g1 # v
       /\ Field(f, "version", v)
       /\ Field(f, "type", "javascript")

\* C3 as stated: a bundle with an entry script and no manifest has type python,
\* and the version of the script's __version__ line when it has one
C3_ScriptOnlyIsPython ==
  outcome # "idle" =>
    \A f \in DOMAIN dir :
      (Bundle(f) /\ Has(dir[f].members, MAIN_PY) /\ ~Has(dir[f].members, PACKAGE_JSON)) =>
        /\ Field(f, "type", "python")
        /\ (Decode(Member(f, MAIN_PY)).ok /\ ScriptVersionOf(f).found) =>
             Field(f, "version", ScriptVersionOf(f).g1)

\* C6 as stated: a manifest that lacks one of the two fields still gives the
\* record the field it has, and the record then has type javascript
C6_PresentFieldStillSet ==
  outcome # "idle" =>
    \A f \in DOMAIN dir : \A v \in ManifestVersions, t \in ManifestDescriptions :
      /\ (Bundle(f) /\ Has(dir[f].members, PACKAGE_JSON)
          /\ Member(f, PACKAGE_JSON) = JObject(<<JPair(VERSION, v)>>)) =>
           Field(f, "version", v) /\ Field(f, "type", "javascript")
      /\ (Bundle(f) /\ Has(dir[f].members, PACKAGE_JSON)
          /\ Member(f, PACKAGE_JSON) = JObject(<<JPair(DESCRIPTION, t)>>)) =>
           Field(f, "description", t) /\ Field(f, "type", "javascript")

(***************************************************************************)
(* Properties of the marker extractor                                      *)
(***************************************************************************)
Image(f) == dir[f].kind = "file" /\ HasExt(f, BIN) /\ ContainsTheForm(BaseOf(f))

Occurs(data, p) == {i \in 1..Len(data) : StartsAt(data, i, p)}

\* the bytes strictly between the first opening marker that a closing marker
\* follows and the closing marker that follows it
SpanBetween(open, close, data) ==
  LET closesAfter(s) == {e \in Occurs(data, close) : e >= s + Len(open)}
      opens == {s \in Occurs(data, open) : closesAfter(s) # {}}
  IN IF opens = {} THEN NoMatch
     ELSE [found |-> TRUE,
           g1 |-> Slice(data, SetMin(opens) + Len(open),
                        SetMin(closesAfter(SetMin(opens))) - 1),
           g2 |-> <<>>]

Decodable(m) == m.found /\ m.g1 # <<>> /\ Decode(m.g1).ok

Undecodable(m) == m.found /\ ~Decode(m.g1).ok

FieldIsSpan(f, key, open, close) ==
  Decodable(SpanBetween(open, close, dir[f].bytes)) =>
    Field(f, key, Decode(SpanBetween(open, close, dir[f].bytes).g1).text)

\* C10 as stated: whenever an opening marker is later followed by its closing
\* marker with decodable bytes between them, the field is the decoded bytes
\* strictly between the two
C10_FieldIsSpanBetweenMarkers ==
  outcome # "idle" =>
    \A f \in DOMAIN dir :
      Image(f) =>
        /\ FieldIsSpan(f, "name", NAME_OPEN, NAME_CLOSE)
        /\ FieldIsSpan(f, "version", VERSION_OPEN, VERSION_CLOSE)
        /\ FieldIsSpan(f, "brand", BRAND_OPEN, BRAND_CLOSE)

FieldSurvives(f, key, m) ==
  /\ Decodable(m) => Field(f, key, Decode(m.g1).text)
  /\ (Undecodable(m) /\ key # "name") => (Has(db, f) /\ ~Has(db[f], key))

SidecarOf(f) == BaseOf(f) \o TXT

\* C4 as stated: when the bytes between a field's markers do not decode, the
\* scan still returns, that field alone is left out, the other marker fields
\* and the sidecar description are there, and the record is completed
C4_DecodeFailureSwallowed ==
  outcome # "idle" =>
    \A f \in DOMAIN dir :
      (/\ Image(f)
       /\ \/ Undecodable(REGEX_NAME(dir[f].bytes))
          \/ Undecodable(REGEX_VERSION(dir[f].bytes))
          \/ Undecodable(REGEX_BRAND(dir[f].bytes))) =>
        /\ outcome = "returned"
        /\ Completed(f)
        /\ Has(db[f], "filename_version")
        /\ Has(db[f], "human_size")
        /\ FieldSurvives(f, "name", REGEX_NAME(dir[f].bytes))
        /\ FieldSurvives(f, "version", REGEX_VERSION(dir[f].bytes))
        /\ FieldSurvives(f, "brand", REGEX_BRAND(dir[f].bytes))
        /\ (isfile(dir, SidecarOf(f)) /\ ReadText(dir[SidecarOf(f)].bytes).ok) =>
             Field(f, "description", ReadText(dir[SidecarOf(f)].bytes).text)


====
